---- MODULE Spec2Model ----
(***************************************************************************)
(* Model of the flight-search aggregator: the shared rate limiter, the     *)
(* date-pair price scanner (pricesForDatepairs), the single-query          *)
(* endpoints (getFlightOffers, getSearchSuggestions) and the outbound      *)
(* matching predicate (sameOutbound).                                      *)
(***************************************************************************)
EXTENDS Integers, Sequences, FiniteSets, TLC

\* ------------------------------------------------------------------ bounds
MaxCalls == 2      \* concurrently handled date-pair requests
MaxPairs == 2      \* longest datepairs list of one request
MaxJobs == 2       \* date-pair queries scheduled over the whole run
TickMs == 50       \* granularity of the clock, in ms

\* --------------------------------------------------------------- variables
VARIABLES
  queue,          \* limiter: jobs waiting, head first
  nrunning,       \* limiter: number of jobs in flight
  sinceLast,      \* limiter: ms since the last dispatch, saturating at minTime
  enq,            \* history: jobs in the order schedule() received them
  order,          \* history: jobs in the order they were dispatched
  gaps,           \* history: ms observed between two consecutive dispatches
  sent,           \* history: requests sent to the upstream API
  callState,      \* per date-pair request: idle, pending, resolved, responded
  datepairs,      \* per date-pair request: the datepairs argument
  flights,        \* per date-pair request: the flights object
  responseCount,  \* per date-pair request
  errorCount,     \* per date-pair request
  resolveCalls,   \* per date-pair request: number of resolve(flights) calls
  phase,          \* per date-pair query: position in its promise chain
  settle,         \* per date-pair query: how the upstream call settled
  httpStatus,     \* per date-pair request: status of the response, 0 if none
  httpBody,       \* per date-pair request: body of the response
  foState,        \* flight-offer request: position in its promise chain
  foResponse,     \* flight-offer request: how the upstream call settled
  foResult,       \* flight-offer request: what getFlightOffers settled with
  foHttp,         \* flight-offer request: status of the response, 0 if none
  ssState,        \* suggestion request: position in its promise chain
  ssResponse,     \* suggestion request: how the upstream call settled
  ssResult,       \* suggestion request: what getSearchSuggestions settled with
  ssHttp,         \* suggestion request: status of the response, 0 if none
  it1, it2,       \* arguments of sameOutbound
  applied,        \* whether sameOutbound has been applied to them
  same, sameRev   \* sameOutbound(it1, it2) and sameOutbound(it2, it1)

limVars == <<queue, nrunning, sinceLast, enq, order, gaps, sent>>
dpVars == <<callState, datepairs, flights, responseCount, errorCount,
            resolveCalls, phase, settle, httpStatus, httpBody>>
sqVars == <<foState, foResponse, foResult, foHttp,
            ssState, ssResponse, ssResult, ssHttp>>
soVars == <<it1, it2, applied, same, sameRev>>
vars == <<limVars, dpVars, sqVars, soVars>>

\* ----------------------------------------------------------------- helpers
Min(a, b) == IF a <= b THEN a ELSE b
Range(s) == {s[i] : i \in DOMAIN s}
SeqsUpTo(S, n) == UNION {[1..k -> S] : k \in 0..n}
EmptyObj == [k \in {} |-> 0]
Put(obj, k, v) == [x \in (DOMAIN obj) \cup {k} |-> IF x = k THEN v ELSE obj[x]]
IsPrefix(s, t) == Len(s) <= Len(t) /\ \A i \in 1..Len(s) : s[i] = t[i]
Distinct(s) == \A i, k \in DOMAIN s : i # k => s[i] # s[k]

\* -------------------------------------------------------------- the limiter
\* AMADEUS_ENV unset: the test environment, bounded-interval configuration.
limiterArgs_noMinTime == [minTime |-> 0, maxConcurrent |-> 50]
limiterArgs == [minTime |-> 100, maxConcurrent |-> 50]

\* limiter.schedule(fn) with no job options: default priority, so the job
\* joins the tail of the queue.
schedule_front(q, job) == <<job>> \o q
schedule(q, job) == Append(q, job)

RECURSIVE scheduleAll(_, _)
scheduleAll(q, jobs) ==
  IF jobs = <<>> THEN q ELSE scheduleAll(schedule(q, Head(jobs)), Tail(jobs))

\* The limiter starts the job at the head of the queue when fewer than
\* maxConcurrent jobs are in flight and minTime has passed since the last start.
limiterDispatch(j) ==
  /\ queue # <<>>
  /\ Head(queue) = j
  /\ nrunning < limiterArgs.maxConcurrent
  /\ sinceLast >= limiterArgs.minTime
  /\ queue' = Tail(queue)
  /\ nrunning' = nrunning + 1
  /\ sinceLast' = 0
  /\ gaps' = IF order = <<>> THEN gaps ELSE gaps \cup {sinceLast}
  /\ order' = Append(order, j)
  /\ enq' = enq

\* The job's promise settled: the limiter frees its slot.
limiterRelease ==
  /\ nrunning' = nrunning - 1
  /\ UNCHANGED <<queue, sinceLast, enq, order, gaps, sent>>

Tick ==
  /\ sinceLast < limiterArgs.minTime
  /\ sinceLast' = Min(sinceLast + TickMs, limiterArgs.minTime)
  /\ UNCHANGED <<queue, nrunning, enq, order, gaps, sent>>
  /\ UNCHANGED <<dpVars, sqVars, soVars>>

\* ------------------------------------------------- the date-pair scanner
Calls == 1..MaxCalls
DatePairs == {"2024-06-10>2024-06-17", "2024-06-11>2024-06-17"}
DpJobs == [ep : {"datepairs"}, call : Calls, idx : 1..MaxPairs]
Job(c, i) == [ep |-> "datepairs", call |-> c, idx |-> i]
datepairOf(j) == datepairs[j.call][j.idx]

\* What the upstream flight-offer search (max: 1) can answer.
NoSettle == [status |-> "none", data |-> <<>>]
Rejected == [status |-> "rejected", data |-> <<>>]
OneOffer == [price |-> [total |-> "120.50", currency |-> "USD"]]
Fulfilled(data) == [status |-> "fulfilled", data |-> data]
Outcomes == {Rejected, Fulfilled(<<>>), Fulfilled(<<OneOffer>>)}

\* parseFloat of a price total, in hundredths.
parseFloat(s) == CASE s = "120.50" -> 12050 [] OTHER -> 0
\* Intl.NumberFormat("en-US", {style: "currency", currency}).format(total)
currencyFormat(currency, s) ==
  CASE currency = "USD" /\ s = "120.50" -> "$120.50" [] OTHER -> "?"

\* Request c is the c-th date-pair request to arrive.
pricesForDatepairs(c, dps) ==
  /\ callState[c] = "idle"
  /\ \A b \in 1..(c - 1) : callState[b] # "idle"
  /\ Len(enq) + Len(dps) <= MaxJobs
  /\ callState' = [callState EXCEPT ![c] = "pending"]
  /\ datepairs' = [datepairs EXCEPT ![c] = dps]
  /\ flights' = [flights EXCEPT ![c] = EmptyObj]
  /\ responseCount' = [responseCount EXCEPT ![c] = 0]
  /\ errorCount' = [errorCount EXCEPT ![c] = 0]
  /\ LET jobs == [i \in 1..Len(dps) |-> Job(c, i)] IN
       /\ queue' = scheduleAll(queue, jobs)
       /\ enq' = enq \o jobs
       /\ phase' = [j \in DpJobs |->
                      IF j.call = c /\ j.idx <= Len(dps) THEN "queued" ELSE phase[j]]
  /\ UNCHANGED <<nrunning, sinceLast, order, gaps, sent>>
  /\ UNCHANGED <<resolveCalls, settle, httpStatus, httpBody>>
  /\ UNCHANGED <<sqVars, soVars>>

\* The limiter runs the wrapped function: the request goes upstream.
jobStart(j) ==
  /\ phase[j] = "queued"
  /\ limiterDispatch(j)
  /\ sent' = sent \cup {j}
  /\ phase' = [phase EXCEPT ![j] = "inflight"]
  /\ UNCHANGED <<callState, datepairs, flights, responseCount, errorCount,
                 resolveCalls, settle, httpStatus, httpBody>>
  /\ UNCHANGED <<sqVars, soVars>>

upstreamSettle(j, o) ==
  /\ phase[j] = "inflight"
  /\ limiterRelease
  /\ settle' = [settle EXCEPT ![j] = o]
  /\ phase' = [phase EXCEPT ![j] = "settled"]
  /\ UNCHANGED <<callState, datepairs, flights, responseCount, errorCount,
                 resolveCalls, httpStatus, httpBody>>
  /\ UNCHANGED <<sqVars, soVars>>

\* .then((response) => ...): reading response.data[0].price throws on an
\* empty data list, which rejects the promise the .catch is attached to.
thenCallback(j) ==
  /\ phase[j] = "settled"
  /\ settle[j].status = "fulfilled"
  /\ IF settle[j].data = <<>>
       THEN /\ phase' = [phase EXCEPT ![j] = "threw"]
            /\ flights' = flights
       ELSE LET offer == settle[j].data[1] IN
            /\ flights' = [flights EXCEPT ![j.call] =
                 Put(@, datepairOf(j),
                     [price |-> parseFloat(offer.price.total),
                      priceFormatted |->
                        currencyFormat(offer.price.currency, offer.price.total)])]
            /\ phase' = [phase EXCEPT ![j] = "thenDone"]
  /\ UNCHANGED limVars
  /\ UNCHANGED <<callState, datepairs, responseCount, errorCount,
                 resolveCalls, settle, httpStatus, httpBody>>
  /\ UNCHANGED <<sqVars, soVars>>

catchCallback_dropKey(j) ==
  /\ \/ phase[j] = "threw"
     \/ phase[j] = "settled" /\ settle[j].status = "rejected"
  /\ errorCount' = [errorCount EXCEPT ![j.call] = @ + 1]
  /\ flights' = flights
  /\ phase' = [phase EXCEPT ![j] = "caught"]
  /\ UNCHANGED limVars
  /\ UNCHANGED <<callState, datepairs, responseCount,
                 resolveCalls, settle, httpStatus, httpBody>>
  /\ UNCHANGED <<sqVars, soVars>>

\* .catch((_) => ...): runs for a rejected upstream call and for a throw in
\* the .then callback.
catchCallback(j) ==
  /\ \/ phase[j] = "threw"
     \/ phase[j] = "settled" /\ settle[j].status = "rejected"
  /\ errorCount' = [errorCount EXCEPT ![j.call] = @ + 1]
  /\ flights' = [flights EXCEPT ![j.call] = Put(@, datepairOf(j), EmptyObj)]
  /\ phase' = [phase EXCEPT ![j] = "caught"]
  /\ UNCHANGED limVars
  /\ UNCHANGED <<callState, datepairs, responseCount,
                 resolveCalls, settle, httpStatus, httpBody>>
  /\ UNCHANGED <<sqVars, soVars>>

finallyCallback_first(j) ==
  /\ phase[j] \in {"thenDone", "caught"}
  /\ responseCount' = [responseCount EXCEPT ![j.call] = @ + 1]
  /\ IF responseCount'[j.call] = 1
       THEN /\ resolveCalls' = [resolveCalls EXCEPT ![j.call] = @ + 1]
            /\ callState' = [callState EXCEPT ![j.call] =
                               IF @ = "pending" THEN "resolved" ELSE @]
       ELSE UNCHANGED <<resolveCalls, callState>>
  /\ phase' = [phase EXCEPT ![j] = "done"]
  /\ UNCHANGED limVars
  /\ UNCHANGED <<datepairs, flights, errorCount, settle, httpStatus, httpBody>>
  /\ UNCHANGED <<sqVars, soVars>>

\* .finally(() => ...): count the query and resolve on the last one.
finallyCallback(j) ==
  /\ phase[j] \in {"thenDone", "caught"}
  /\ responseCount' = [responseCount EXCEPT ![j.call] = @ + 1]
  /\ IF responseCount'[j.call] = Len(datepairs[j.call])
       THEN /\ resolveCalls' = [resolveCalls EXCEPT ![j.call] = @ + 1]
            /\ callState' = [callState EXCEPT ![j.call] =
                               IF @ = "pending" THEN "resolved" ELSE @]
       ELSE UNCHANGED <<resolveCalls, callState>>
  /\ phase' = [phase EXCEPT ![j] = "done"]
  /\ UNCHANGED limVars
  /\ UNCHANGED <<datepairs, flights, errorCount, settle, httpStatus, httpBody>>
  /\ UNCHANGED <<sqVars, soVars>>

\* .then((flights) => res.send(flights)) of the two date-pair handlers.
sendFlights(c) ==
  /\ callState[c] = "resolved"
  /\ callState' = [callState EXCEPT ![c] = "responded"]
  /\ httpStatus' = [httpStatus EXCEPT ![c] = 200]
  /\ httpBody' = [httpBody EXCEPT ![c] = flights[c]]
  /\ UNCHANGED limVars
  /\ UNCHANGED <<datepairs, flights, responseCount, errorCount,
                 resolveCalls, phase, settle>>
  /\ UNCHANGED <<sqVars, soVars>>

\* ------------------------------------------------------ formatting helpers
\* formatString on the strings that occur: each word capitalised.
formatString(str) ==
  CASE str = "AMERICAN AIRLINES" -> "American Airlines"
    [] str = "BRITISH AIRWAYS" -> "British Airways"
    [] str = "HEATHROW" -> "Heathrow"
    [] str = "LONDON" -> "London"

\* The stops label of an itinerary of n segments.
stopsLabel(n) ==
  IF n = 1 THEN "Nonstop"
  ELSE ToString(n - 1) \o " stop" \o (IF n >= 3 THEN "s" ELSE "")

sameOutbound(a, b) ==
  IF Len(a.segments) # Len(b.segments) THEN FALSE
  ELSE LET aFlights == [i \in DOMAIN a.segments |->
                          a.segments[i].carrierCode \o a.segments[i].carrierName]
           bFlights == [i \in DOMAIN b.segments |->
                          b.segments[i].carrierCode \o b.segments[i].carrierName]
       IN \A i \in DOMAIN aFlights : aFlights[i] \in Range(bFlights)

\* ------------------------------------------------------ the offer aggregator
MaxSegments == 2   \* longest itinerary
MaxOffers == 2     \* longest upstream offer list

Carriers == {"AA", "BA"}
\* response.dictionaries.carriers
carriersDict == [AA |-> "AMERICAN AIRLINES", BA |-> "BRITISH AIRWAYS"]

RawItinerary(codes) ==
  [segments |-> [i \in DOMAIN codes |-> [carrierCode |-> codes[i], number |-> "100"]]]
\* Raw offer number k: an outbound itinerary over the carrier codes, and an
\* inbound itinerary when roundTrip.
RawOffer(k, codes, roundTrip) ==
  [id |-> ToString(k),
   price |-> OneOffer.price,
   validatingAirlineCodes |-> <<codes[1]>>,
   itineraries |-> IF roundTrip THEN <<RawItinerary(codes), RawItinerary(<<"BA">>)>>
                   ELSE <<RawItinerary(codes)>>]
OfferShapes == (UNION {[1..n -> Carriers] : n \in 1..MaxSegments}) \X BOOLEAN

\* res.body: JSON text, parsed when well formed.
Malformed == [wellFormed |-> FALSE, data |-> <<>>]
Body(data) == [wellFormed |-> TRUE, data |-> data]
\* The bodies with at most m offers.
Bodies(m) ==
  {Malformed} \cup
  UNION {{Body([k \in 1..n |-> RawOffer(k, sh[k][1], sh[k][2])]) :
            sh \in [1..n -> OfferShapes]} : n \in 0..m}

NoResponse == [status |-> "none", body |-> Malformed]
FoRejected == [status |-> "rejected", body |-> Malformed]
FoOutcomes(m) ==
  {FoRejected} \cup {[status |-> "fulfilled", body |-> b] : b \in Bodies(m)}

Throw(e) == [threw |-> TRUE, error |-> e, offers |-> <<>>, offerData |-> EmptyObj]
Return(offers, offerData) ==
  [threw |-> FALSE, error |-> "", offers |-> offers, offerData |-> offerData]

\* The identifiers a statement of the offers loop body can read.
ScopeInOffersLoop ==
  {"offers", "offerData", "offer", "response", "currencyFormatter", "res",
   "originLocationCode", "destinationLocationCode", "departureDate",
   "returnDate", "adults", "travelClass", "limiter", "amadeus", "console",
   "format", "formatString", "formatDuration", "sameOutbound"}

\* The display fields of one itinerary that grouping and the claims read.
itineraryDataOf(itinerary) ==
  [stops |-> stopsLabel(Len(itinerary.segments)),
   segments |-> [i \in DOMAIN itinerary.segments |->
      [carrierCode |-> itinerary.segments[i].carrierCode,
       carrierName |-> formatString(carriersDict[itinerary.segments[i].carrierCode]),
       flightNumber |-> itinerary.segments[i].number]]]

\* offer.itineraries.forEach from itinerary i on: the first itinerary is the
\* outbound; any other is pushed to every collected offer with the same
\* outbound, and push on an offer without inbounds throws.
RECURSIVE forEachItinerary(_, _, _, _)
forEachItinerary(offers, offerData, offer, i) ==
  IF i > Len(offer.itineraries) THEN Return(offers, offerData)
  ELSE LET itineraryData == itineraryDataOf(offer.itineraries[i]) IN
    IF i = 1
      THEN forEachItinerary(offers, Put(offerData, "outbound", itineraryData),
                            offer, i + 1)
      ELSE LET inbound == Put(Put(itineraryData, "priceFormatted", offerData.priceFrom),
                              "offerId", offer.id)
               withInbounds == Put(offerData, "inbounds", <<inbound>>)
               matches == {k \in DOMAIN offers :
                             sameOutbound(offers[k].outbound, withInbounds.outbound)}
           IN IF \E k \in matches : "inbounds" \notin DOMAIN offers[k]
                THEN Throw("TypeError")
                ELSE forEachItinerary(
                       [k \in DOMAIN offers |->
                          IF k \in matches
                            THEN Put(offers[k], "inbounds",
                                     Append(offers[k].inbounds, inbound))
                            ELSE offers[k]],
                       IF matches # {} THEN Put(withInbounds, "added", TRUE)
                                       ELSE withInbounds,
                       offer, i + 1)

\* One round of response.data.forEach: the console.log of priceFrom reads an
\* identifier that is declared nowhere.
processOffer(offers, offer) ==
  LET offerData == [priceFrom |-> currencyFormat(offer.price.currency, offer.price.total),
                    validatingAirline |-> offer.validatingAirlineCodes[1]]
  IN IF "priceFrom" \notin ScopeInOffersLoop THEN Throw("ReferenceError")
     ELSE LET r == forEachItinerary(offers, offerData, offer, 1) IN
       IF r.threw THEN r
       ELSE IF "added" \in DOMAIN r.offerData THEN Return(r.offers, EmptyObj)
       ELSE Return(Append(r.offers, r.offerData), EmptyObj)

RECURSIVE forEachOffer(_, _, _)
forEachOffer(offers, data, k) ==
  IF k > Len(data) THEN Return(offers, EmptyObj)
  ELSE LET r == processOffer(offers, data[k]) IN
         IF r.threw THEN r ELSE forEachOffer(r.offers, data, k + 1)

\* The .then callback of getFlightOffers.
offersOf(body) ==
  IF ~body.wellFormed THEN Throw("SyntaxError")
  ELSE IF body.data = <<>> THEN Throw("TypeError")
  ELSE forEachOffer(<<>>, body.data, 1)

\* ------------------------------------------------ the single-query endpoints
FoJob == [ep |-> "offers", call |-> 1, idx |-> 1]
SsRequest == [ep |-> "suggestions", call |-> 1, idx |-> 1]
NoResult == [kind |-> "none", offers |-> <<>>, error |-> ""]

getFlightOffers ==
  /\ foState = "idle"
  /\ foState' = "queued"
  /\ queue' = schedule(queue, FoJob)
  /\ enq' = Append(enq, FoJob)
  /\ UNCHANGED <<nrunning, sinceLast, order, gaps, sent>>
  /\ UNCHANGED <<foResponse, foResult, foHttp, ssState, ssResponse, ssResult, ssHttp>>
  /\ UNCHANGED <<dpVars, soVars>>

foStart ==
  /\ foState = "queued"
  /\ limiterDispatch(FoJob)
  /\ sent' = sent \cup {FoJob}
  /\ foState' = "inflight"
  /\ UNCHANGED <<foResponse, foResult, foHttp, ssState, ssResponse, ssResult, ssHttp>>
  /\ UNCHANGED <<dpVars, soVars>>

foSettle(o) ==
  /\ foState = "inflight"
  /\ limiterRelease
  /\ foResponse' = o
  /\ foState' = "settled"
  /\ UNCHANGED <<foResult, foHttp, ssState, ssResponse, ssResult, ssHttp>>
  /\ UNCHANGED <<dpVars, soVars>>

\* .then((res) => ...)
foThen ==
  /\ foState = "settled"
  /\ foResponse.status = "fulfilled"
  /\ LET r == offersOf(foResponse.body) IN
       IF r.threw
         THEN /\ foState' = "threw"
              /\ foResult' = [kind |-> "none", offers |-> <<>>, error |-> r.error]
         ELSE /\ foState' = "fulfilled"
              /\ foResult' = [kind |-> "offers", offers |-> r.offers, error |-> ""]
  /\ UNCHANGED <<foResponse, foHttp, ssState, ssResponse, ssResult, ssHttp>>
  /\ UNCHANGED <<limVars, dpVars, soVars>>

\* .catch((err) => { return err; }): the promise is fulfilled with the error.
foCatch ==
  /\ \/ foState = "threw"
     \/ foState = "settled" /\ foResponse.status = "rejected"
  /\ foState' = "fulfilled"
  /\ foResult' = [kind |-> "error", offers |-> <<>>,
                  error |-> IF foState = "threw" THEN foResult.error
                            ELSE "ResponseError"]
  /\ UNCHANGED <<foResponse, foHttp, ssState, ssResponse, ssResult, ssHttp>>
  /\ UNCHANGED <<limVars, dpVars, soVars>>

\* The GET /get-flight-offers handler: res.send on fulfilment, status 500 on
\* rejection.
flightOffersRespond ==
  /\ foState \in {"fulfilled", "rejected"}
  /\ foHttp' = IF foState = "fulfilled" THEN 200 ELSE 500
  /\ foState' = "responded"
  /\ UNCHANGED <<foResponse, foResult, ssState, ssResponse, ssResult, ssHttp>>
  /\ UNCHANGED <<limVars, dpVars, soVars>>

\* What the upstream location search can answer.
Location == [iataCode |-> "LHR", name |-> "HEATHROW", address |-> [cityName |-> "LONDON"]]
SsOutcomes == {[status |-> "rejected", data |-> <<>>],
               [status |-> "fulfilled", data |-> <<>>],
               [status |-> "fulfilled", data |-> <<Location>>]}
NoSsResult == [kind |-> "none", suggestions |-> <<>>]

\* getSearchSuggestions calls amadeus.referenceData.locations.get itself.
getSearchSuggestions ==
  /\ ssState = "idle"
  /\ ssState' = "inflight"
  /\ sent' = sent \cup {SsRequest}
  /\ UNCHANGED <<queue, nrunning, sinceLast, enq, order, gaps>>
  /\ UNCHANGED <<foState, foResponse, foResult, foHttp, ssResponse, ssResult, ssHttp>>
  /\ UNCHANGED <<dpVars, soVars>>

ssSettle(o) ==
  /\ ssState = "inflight"
  /\ ssResponse' = o
  /\ ssState' = "settled"
  /\ UNCHANGED <<foState, foResponse, foResult, foHttp, ssResult, ssHttp>>
  /\ UNCHANGED <<limVars, dpVars, soVars>>

\* .then((response) => ... resolve(suggestions))
ssThen ==
  /\ ssState = "settled"
  /\ ssResponse.status = "fulfilled"
  /\ ssResult' = [kind |-> "suggestions",
                  suggestions |-> [i \in DOMAIN ssResponse.data |->
                     [iataCode |-> ssResponse.data[i].iataCode,
                      name |-> formatString(ssResponse.data[i].name),
                      cityName |-> formatString(ssResponse.data[i].address.cityName)]]]
  /\ ssState' = "fulfilled"
  /\ UNCHANGED <<foState, foResponse, foResult, foHttp, ssResponse, ssHttp>>
  /\ UNCHANGED <<limVars, dpVars, soVars>>

\* .catch((err) => reject(err))
ssCatch ==
  /\ ssState = "settled"
  /\ ssResponse.status = "rejected"
  /\ ssResult' = [kind |-> "error", suggestions |-> <<>>]
  /\ ssState' = "rejected"
  /\ UNCHANGED <<foState, foResponse, foResult, foHttp, ssResponse, ssHttp>>
  /\ UNCHANGED <<limVars, dpVars, soVars>>

\* The GET /search-suggestions handler.
suggestionsRespond ==
  /\ ssState \in {"fulfilled", "rejected"}
  /\ ssHttp' = IF ssState = "fulfilled" THEN 200 ELSE 500
  /\ ssState' = "responded"
  /\ UNCHANGED <<foState, foResponse, foResult, foHttp, ssResponse, ssResult>>
  /\ UNCHANGED <<limVars, dpVars, soVars>>

\* ------------------------------------------------- sameOutbound on its own
Segments == [carrierCode : Carriers, carrierName : {"American Airlines", "British Airways"}]
Itineraries == {[segments |-> s] : s \in UNION {[1..n -> Segments] : n \in 1..MaxSegments}}

applySameOutbound ==
  /\ ~applied
  /\ applied' = TRUE
  /\ same' = sameOutbound(it1, it2)
  /\ sameRev' = sameOutbound(it2, it1)
  /\ UNCHANGED <<it1, it2>>
  /\ UNCHANGED <<limVars, dpVars, sqVars>>

\* ------------------------------------------------ the limiter under load
MaxTasks == 52     \* tasks scheduled over the whole run
Task(n) == [ep |-> "task", call |-> 0, idx |-> n]

\* Some request handler schedules one more upstream call.
scheduleTask ==
  /\ Len(enq) < MaxTasks
  /\ queue' = schedule(queue, Task(Len(enq) + 1))
  /\ enq' = Append(enq, Task(Len(enq) + 1))
  /\ UNCHANGED <<nrunning, sinceLast, order, gaps, sent>>
  /\ UNCHANGED <<dpVars, sqVars, soVars>>

taskStart ==
  /\ queue # <<>>
  /\ limiterDispatch(Head(queue))
  /\ sent' = sent \cup {Head(queue)}
  /\ UNCHANGED <<dpVars, sqVars, soVars>>

taskSettle ==
  /\ nrunning > 0
  /\ limiterRelease
  /\ UNCHANGED <<dpVars, sqVars, soVars>>

\* ------------------------------------------------------- the specification
InitRequests ==
  /\ queue = <<>>
  /\ nrunning = 0
  /\ sinceLast = limiterArgs.minTime
  /\ enq = <<>>
  /\ order = <<>>
  /\ gaps = {}
  /\ sent = {}
  /\ callState = [c \in Calls |-> "idle"]
  /\ datepairs = [c \in Calls |-> <<>>]
  /\ flights = [c \in Calls |-> EmptyObj]
  /\ responseCount = [c \in Calls |-> 0]
  /\ errorCount = [c \in Calls |-> 0]
  /\ resolveCalls = [c \in Calls |-> 0]
  /\ phase = [j \in DpJobs |-> "none"]
  /\ settle = [j \in DpJobs |-> NoSettle]
  /\ httpStatus = [c \in Calls |-> 0]
  /\ httpBody = [c \in Calls |-> EmptyObj]
  /\ foState = "idle"
  /\ foResponse = NoResponse
  /\ foResult = NoResult
  /\ foHttp = 0
  /\ ssState = "idle"
  /\ ssResponse = [status |-> "none", data |-> <<>>]
  /\ ssResult = NoSsResult
  /\ ssHttp = 0

Init ==
  /\ InitRequests
  /\ it1 = [segments |-> <<>>]
  /\ it2 = [segments |-> <<>>]
  /\ applied = FALSE
  /\ same = FALSE
  /\ sameRev = FALSE

Next ==
  \/ \E c \in Calls : \E dps \in SeqsUpTo(DatePairs, MaxPairs) :
       pricesForDatepairs(c, dps)
  \/ \E j \in DpJobs : jobStart(j)
  \/ \E j \in DpJobs : \E o \in Outcomes : upstreamSettle(j, o)
  \/ \E j \in DpJobs : thenCallback(j)
  \/ \E j \in DpJobs : catchCallback(j)
  \/ \E j \in DpJobs : finallyCallback(j)
  \/ \E c \in Calls : sendFlights(c)
  \/ Tick

Spec == Init /\ [][Next]_vars

\* The single-query endpoints sharing the limiter.
SingleQueryNext ==
  \/ getFlightOffers
  \/ foStart
  \/ \E o \in FoOutcomes(MaxOffers) : foSettle(o)
  \/ foThen
  \/ foCatch
  \/ flightOffersRespond
  \/ getSearchSuggestions
  \/ \E o \in SsOutcomes : ssSettle(o)
  \/ ssThen
  \/ ssCatch
  \/ suggestionsRespond
  \/ Tick

SingleQuerySpec == Init /\ [][SingleQueryNext]_vars

\* sameOutbound applied to any two itineraries.
SameOutboundInit ==
  /\ InitRequests
  /\ it1 \in Itineraries
  /\ it2 \in Itineraries
  /\ applied = FALSE
  /\ same = FALSE
  /\ sameRev = FALSE

SameOutboundSpec == SameOutboundInit /\ [][applySameOutbound]_vars

\* Any number of tasks scheduled on the one limiter.
LimiterNext ==
  \/ scheduleTask
  \/ taskStart
  \/ taskSettle
  \/ Tick

LimiterSpec == Init /\ [][LimiterNext]_vars

\* Timers fire and every dispatched upstream call settles.
FairLimiterSpec ==
  LimiterSpec /\ WF_vars(Tick) /\ WF_vars(taskStart) /\ WF_vars(taskSettle)

\* The event loop runs every ready callback and timer; an upstream call that
\* was dispatched settles.  Requests arrive or not.
Fairness ==
  /\ WF_vars(Tick)
  /\ \A j \in DpJobs :
       /\ WF_vars(jobStart(j))
       /\ WF_vars(\E o \in Outcomes : upstreamSettle(j, o))
       /\ WF_vars(thenCallback(j))
       /\ WF_vars(catchCallback(j))
       /\ WF_vars(finallyCallback(j))
  /\ \A c \in Calls : WF_vars(sendFlights(c))

FairSpec == Spec /\ Fairness

\* ------------------------------------------------------------------ claims
Resolved(c) == callState[c] \in {"resolved", "responded"}
JobsOf(c) == {Job(c, i) : i \in 1..Len(datepairs[c])}
Populated(v) == DOMAIN v = {"price", "priceFormatted"}

C2_FullBarrier ==
  \A c \in Calls : Resolved(c) =>
    \A j \in JobsOf(c) :
      /\ phase[j] \notin {"queued", "inflight"}
      /\ settle[j].status # "none"

C2_Witness ==
  \E c \in Calls :
    /\ Resolved(c)
    /\ Len(datepairs[c]) = 2
    /\ \E j, k \in JobsOf(c) :
         settle[j].status = "rejected" /\ settle[k].status = "fulfilled"
    /\ \E d \in Calls : callState[d] = "pending"

C9_EventuallyResolves ==
  \A c \in Calls :
    /\ (callState[c] = "pending") ~> (resolveCalls[c] = 1)
    /\ [](resolveCalls[c] <= 1)

\* C3 as stated: every request sent to the upstream API was started by the
\* limiter.
C3_OnlyThroughLimiter == sent \subseteq Range(order)

\* C4: under minTime 100 and maxConcurrent 50, never more than 50 tasks are
\* in flight and no two tasks start less than 100 ms apart.
C4_RateBounds ==
  /\ nrunning <= 50
  /\ \A g \in gaps : g >= 100

C4_Witness ==
  /\ nrunning = 50
  /\ queue # <<>>
  /\ sinceLast = limiterArgs.minTime
  /\ gaps # {}

UpstreamFailed ==
  \/ foResponse.status = "rejected"
  \/ foResponse.status = "fulfilled" /\ ~foResponse.body.wellFormed

\* C6 as stated: when the upstream flight-offer search fails, GET
\* /get-flight-offers responds with status 500 and never with 200.
C6_FailureIs500 ==
  (foState = "responded" /\ UpstreamFailed) => foHttp = 500

SameCarriers(rawA, rawB) ==
  LET a == rawA.itineraries[1].segments
      b == rawB.itineraries[1].segments
  IN Len(a) = Len(b) /\ \A i \in DOMAIN a : a[i].carrierCode = b[i].carrierCode

Finished == foState \in {"fulfilled", "responded"}
ParsedData == foResponse.status = "fulfilled" /\ foResponse.body.wellFormed

\* C7 as stated: for two raw offers with the same outbound carrier sequence
\* and two inbound itineraries, getFlightOffers yields one Offer whose
\* inbound list holds the two inbounds in upstream order.
C7_OneOfferTwoInbounds ==
  (/\ Finished
   /\ ParsedData
   /\ Len(foResponse.body.data) = 2
   /\ SameCarriers(foResponse.body.data[1], foResponse.body.data[2])
   /\ \A k \in 1..2 : Len(foResponse.body.data[k].itineraries) = 2)
  => /\ foResult.kind = "offers"
     /\ Len(foResult.offers) = 1
     /\ Len(foResult.offers[1].inbounds) = 2
     /\ foResult.offers[1].inbounds[1].offerId = "1"
     /\ foResult.offers[1].inbounds[2].offerId = "2"

\* The places of the output where the inbound of raw offer id appears.
InboundPlaces(id) ==
  {<<o, n>> \in (DOMAIN foResult.offers) \X (1..MaxOffers) :
     /\ "inbounds" \in DOMAIN foResult.offers[o]
     /\ n \in DOMAIN foResult.offers[o].inbounds
     /\ foResult.offers[o].inbounds[n].offerId = id}

\* C10 as stated: after getFlightOffers has processed an upstream response,
\* the inbound itinerary of every raw offer is in the inbound list of exactly
\* one output Offer.
C10_InboundExactlyOnce ==
  (Finished /\ ParsedData) =>
    \A k \in DOMAIN foResponse.body.data :
      Len(foResponse.body.data[k].itineraries) = 2
        => /\ foResult.kind = "offers"
           /\ Cardinality(InboundPlaces(foResponse.body.data[k].id)) = 1

FlightValues(it) ==
  {it.segments[i].carrierCode \o it.segments[i].carrierName : i \in DOMAIN it.segments}

\* C8 as stated: sameOutbound(it1, it2) is true exactly when the two
\* itineraries have the same number of segments and set-equal collections of
\* carrierCode+carrierName values, and so it is symmetric.
C8_SetEqualSymmetric ==
  applied =>
    /\ same = (Len(it1.segments) = Len(it2.segments)
                 /\ FlightValues(it1) = FlightValues(it2))
    /\ same = sameRev
====
